---- MODULE Spec2Model ----
(***************************************************************************)
(* Model of the deliverability-verification code of azlo-validator-shared: *)
(*   - smtp.go      (src/unnamed/part_002): CheckSMTP, checkSMTPServer,    *)
(*                  analyzeSMTPResponse, send, readResponse                *)
(*   - enhanced_validator.go (src/unnamed/part_001): the IP reputation     *)
(*                  cache of EnhancedValidator                             *)
(*   - abuseipdb.go (src/unnamed/part_000): AbuseIPDBClient.CheckIP,       *)
(*                  GetMailServerIPs                                       *)
(*   - enhanced_validator.go: ValidateEmailWithReputation                  *)
(*   - validator.go: Validator.ValidateEmail, validateDomain, ValidateBatch*)
(*   - syntax.go:   IsValidSyntax                                          *)
(*   - dns.go:      CheckMX, CheckA, ValidateDomain                        *)
(***************************************************************************)
EXTENDS Integers, Sequences, FiniteSets, TLC

(***************************************************************************)
(* Bounds of the model.                                                    *)
(***************************************************************************)
\* longest MX list handed to CheckSMTP
MaxServers == 2
\* most lines a server puts in one reply (1 = single-line reply)
MaxLines == 2
\* the caller-supplied timeout of a probe, in clock ticks
Timeout == 2
\* longest time one line takes to arrive, in clock ticks
MaxDelay == 1
\* reply codes analyzeSMTPResponse is tabulated on: -NegCodes..MaxCode
NegCodes == 2
MaxCode == 600

\* last tick of the wall clock of the reputation cache
MaxTime == 3

\* longest MX record list the resolver answers with
MaxMX == 2
\* longest address ValidateEmail is tabulated on
MaxEmailLen == 7
\* longest list handed to ValidateBatch
MaxBatch == 2

\* MX hosts the lookup may have returned
Hosts == {"mx1", "mx2"}
\* reply codes a modelled server answers with
ReplyCodes == {250, 450, 550}
\* goroutines using one EnhancedValidator
Threads == {"t1", "t2"}
\* strings looked up: one that net.ParseIP accepts and one it rejects
IPs == {"192.0.2.1", "not-an-ip"}
\* addresses the hosts of MX records resolve to
MailIPs == {"192.0.2.1", "192.0.2.2"}
\* the keys v.ipCache may hold
CacheKeys == IPs \cup MailIPs
\* (abuseConfidenceScore, totalReports) pairs the provider may have on record
ReputationSamples == {<<75, 50>>, <<76, 0>>, <<0, 51>>}
\* preference values of MX records
Prefs == {10, 20}
\* characters the tabulated addresses are made of
Alphabet == {"a", ".", "@", "-"}

(***************************************************************************)
(* types.go: Status                                                        *)
(***************************************************************************)
StatusValid == "VALID"
StatusInvalid == "INVALID"
StatusRisky == "RISKY"

\* smtp.go: SMTPResult{Status, Reason, Code}
SMTPResult(s, r, c) == [Status |-> s, Reason |-> r, Code |-> c]
\* no result produced yet
NoResult == SMTPResult("NONE", "", 0)

VARIABLES
  \* ---- CheckSMTP ----
  servers,      \* the MX list passed to CheckSMTP (hosts, in list order)
  pc,           \* position of CheckSMTP: start, loop, probing, done
  idx,          \* index of the range loop over servers
  probed,       \* hosts handed to checkSMTPServer so far, in call order
  outcomes,     \* Status of each result checkSMTPServer returned, in call order
  smtpResult,   \* what CheckSMTP returned
  \* ---- checkSMTPServer (one probe session) ----
  sess,         \* position of the session
  inbuf,        \* lines the server has sent and the client has not yet read
  sent,         \* commands written on the connection, in order
  srvReply,     \* code of the server's reply per stage (greeting, HELO, MAIL, RCPT)
  reads,        \* code readResponse returned per stage
  clock,        \* time elapsed since checkSMTPServer was entered
  connectedAt,  \* clock value when the connection opened
  deadline,     \* the deadline set with conn.SetDeadline
  timedOut,     \* some dial or read of this session hit its time limit
  probeResult,  \* what checkSMTPServer returned
  \* ---- analyzeSMTPResponse tabulation ----
  anCode,       \* the code under analysis
  anResult,     \* the result of analyzeSMTPResponse(anCode)
  \* ---- AbuseIPDBClient: the service behind v.abuseIPDB ----
  abuseIPDB,    \* the (score, reports) pairs the service has on record
  \* ---- EnhancedValidator: the IP reputation cache ----
  ipCache,      \* v.ipCache: IP -> *IPReputationResult (NoRecord: no entry)
  cacheMutex,   \* v.cacheMutex: the readers holding it and the writer holding it
  now,          \* the wall clock, in ticks of 12 hours
  cpc,          \* per goroutine: its position
  cip,          \* per goroutine: the ip argument of its lookup
  cres,         \* per goroutine: the result CheckIP returned to it
  cret,         \* per goroutine: the record its lookup returned
  calls,        \* per goroutine: CheckIP calls made by its current lookup
  seenAge,      \* per goroutine: age of the entry its lookup found (-1: none)
  seenRec,      \* per goroutine: the entry younger than the TTL its lookup found
  wrote,        \* per goroutine: its lookup stored a record in ipCache
  failKind,     \* per goroutine: how the CheckIP call of its lookup failed
  swept,        \* per goroutine: the keys its ClearExpiredCache call deleted
  \* ---- dns.go: the resolver's view of one domain ----
  zone,         \* what the resolver answers for the domain (NoZone: not asked yet)
  mxRet,        \* what CheckMX returned (records, error)
  vdRet,        \* the error ValidateDomain returned ("" for nil)
  \* ---- validator.go: Validator ----
  email,        \* the address passed to ValidateEmail, as a character sequence
  vpc,          \* position of the verification of email
  result,       \* the Result of the verification of email
  netOps,       \* network operations the verification of email has started, in order
  emails,       \* the argument of ValidateBatch
  results,      \* the results ValidateBatch has filled in so far
  \* ---- enhanced_validator.go: ValidateEmailWithReputation ----
  basicResult,  \* the Result basicValidator.ValidateEmail returned
  ips,          \* the mail-server IPs GetMailServerIPs returned
  reputationResults, \* the records collected by the loop over ips
  highRiskFound \* the flag of the loop over ips

smtpVars == <<servers, pc, idx, probed, outcomes, smtpResult>>
sessVars == <<sess, inbuf, sent, srvReply, reads, clock, connectedAt,
              deadline, timedOut, probeResult>>
anVars == <<anCode, anResult>>
cacheVars == <<ipCache, cacheMutex, now, cpc, cip, cres, cret, calls, seenAge,
               seenRec, wrote, failKind>>
histVars == <<swept>>
provVars == <<abuseIPDB>>
dnsVars == <<zone, mxRet, vdRet>>
valVars == <<email, vpc, result, netOps, emails, results>>
verVars == <<basicResult, ips, reputationResults, highRiskFound>>
vars == <<smtpVars, sessVars, anVars, cacheVars, histVars, dnsVars, valVars,
          verVars, provVars>>

(***************************************************************************)
(* Lines on the wire.  A line of a reply is "ddd-text" (continuation) or   *)
(* "ddd text" (final); anything readResponse cannot parse is Garbage.      *)
(***************************************************************************)
Line(c, more) == [code |-> c, cont |-> more, ok |-> TRUE]
Garbage == [code |-> 0, cont |-> FALSE, ok |-> FALSE]

\* a reply of n lines with code c: n-1 continuation lines and a final line
ReplyLines(c, n) == [i \in 1..n |-> Line(c, i < n)]

\* what a server may answer to one stage: nothing, garbage, or a reply
ServerReplies ==
  {<<>>, <<Garbage>>} \cup {ReplyLines(c, n) : c \in ReplyCodes, n \in 1..MaxLines}

\* the server's reply code of a stage; NoReply when it stayed silent
NoReply == -1

\* readResponse: the code of ONE line; 0 when the line is too short or does
\* not start with a number.  "%d" stops at the first non-digit, so a
\* continuation line "250-..." parses to 250 like a final line.
readResponse(line) == IF line.ok THEN line.code ELSE 0

ReplyCode(lines) ==
  IF lines = <<>> THEN NoReply ELSE readResponse(lines[Len(lines)])

(***************************************************************************)
(* analyzeSMTPResponse                                                     *)
(***************************************************************************)
\* analyzeSMTPResponse with 552 (mailbox full) taken as a hard rejection
analyzeSMTPResponse_552Invalid(code) ==
  IF code >= 200 /\ code <= 299
    THEN SMTPResult(StatusValid, "Mailbox confirmed", code)
  ELSE IF code >= 550 /\ code <= 553
    THEN SMTPResult(StatusInvalid, "Mailbox does not exist", code)
  ELSE IF code >= 500
    THEN SMTPResult(StatusRisky, "Server rejected the request", code)
  ELSE IF code >= 400
    THEN SMTPResult(StatusRisky, "Greylisted or temporary server issue", code)
  ELSE SMTPResult(StatusRisky, "Unknown SMTP response", code)

analyzeSMTPResponse(code) ==
  IF code >= 200 /\ code <= 299
    THEN SMTPResult(StatusValid, "Mailbox confirmed", code)
  ELSE IF code = 550 \/ code = 551 \/ code = 553
    THEN SMTPResult(StatusInvalid, "Mailbox does not exist", code)
  ELSE IF code = 552
    THEN SMTPResult(StatusRisky, "Mailbox full or over quota", code)
  ELSE IF code >= 500
    THEN SMTPResult(StatusRisky, "Server rejected the request", code)
  ELSE IF code >= 400
    THEN SMTPResult(StatusRisky, "Greylisted or temporary server issue", code)
  ELSE SMTPResult(StatusRisky, "Unknown SMTP response", code)

(***************************************************************************)
(* CheckSMTP                                                               *)
(***************************************************************************)
\* the empty list falling through to the uncertain result
NoServersResult_Risky ==
  SMTPResult(StatusRisky, "All SMTP servers returned uncertain results", 0)

\* the result for an empty server list
NoServersResult ==
  SMTPResult(StatusInvalid, "No SMTP servers found for the domain", 0)

\* the loop running out of servers reported as a rejection
AllUncertainResult_Invalid ==
  SMTPResult(StatusInvalid, "All SMTP servers returned uncertain results", 0)

\* the result after the loop ran out of servers
AllUncertainResult ==
  SMTPResult(StatusRisky, "All SMTP servers returned uncertain results", 0)

\* the early-return test forgetting the rejected outcome
IsDefinitive_ValidOnly(r) == r.Status = StatusValid

\* the loop's early-return test
IsDefinitive(r) == r.Status = StatusValid \/ r.Status = StatusInvalid

\* the session state before checkSMTPServer is entered
SessionIdle ==
  /\ sess = "Idle"
  /\ inbuf = <<>>
  /\ sent = <<>>
  /\ srvReply = <<>>
  /\ reads = <<>>
  /\ clock = 0
  /\ connectedAt = 0
  /\ deadline = 0
  /\ timedOut = FALSE
  /\ probeResult = NoResult

InitSMTP ==
  /\ servers \in UNION {[1..n -> Hosts] : n \in 0..MaxServers}
  /\ pc = "start"
  /\ idx = 0
  /\ probed = <<>>
  /\ outcomes = <<>>
  /\ smtpResult = NoResult
  /\ SessionIdle

InitAnalyze ==
  /\ anCode \in (0 - NegCodes)..MaxCode
  /\ anResult = NoResult

\* CheckSMTP entry: the empty-list test
CheckSMTPEnter ==
  /\ pc = "start"
  /\ IF Len(servers) = 0
       THEN /\ smtpResult' = NoServersResult
            /\ pc' = "done"
            /\ idx' = idx
       ELSE /\ smtpResult' = smtpResult
            /\ pc' = "loop"
            /\ idx' = 1
  /\ UNCHANGED <<servers, probed, outcomes, sessVars, anVars, cacheVars, histVars,
                 dnsVars, valVars, verVars,
                 provVars>>

\* loop body: call checkSMTPServer(email, server.Host, timeout)
CheckSMTPProbe ==
  /\ pc = "loop"
  /\ pc' = "probing"
  /\ probed' = Append(probed, servers[idx])
  /\ sess' = "Disconnected"
  /\ inbuf' = <<>>
  /\ sent' = <<>>
  /\ srvReply' = <<>>
  /\ reads' = <<>>
  /\ clock' = 0
  /\ connectedAt' = 0
  /\ deadline' = 0
  /\ timedOut' = FALSE
  /\ probeResult' = NoResult
  /\ UNCHANGED <<servers, idx, outcomes, smtpResult, anVars, cacheVars, histVars,
                 dnsVars, valVars, verVars,
                 provVars>>

\* loop body after the call returned: early return, next server, or fall out
CheckSMTPIterate ==
  /\ pc = "probing"
  /\ sess = "Closed"
  /\ outcomes' = Append(outcomes, probeResult.Status)
  /\ IF IsDefinitive(probeResult)
       THEN /\ smtpResult' = probeResult
            /\ pc' = "done"
            /\ idx' = idx
       ELSE IF idx < Len(servers)
              THEN /\ smtpResult' = smtpResult
                   /\ pc' = "loop"
                   /\ idx' = idx + 1
              ELSE /\ smtpResult' = AllUncertainResult
                   /\ pc' = "done"
                   /\ idx' = idx
  /\ UNCHANGED <<servers, probed, sessVars, anVars, cacheVars, histVars,
                 dnsVars, valVars, verVars,
                 provVars>>

(***************************************************************************)
(* checkSMTPServer: one probe session.                                     *)
(*   Disconnected -> Connected -> Greeted -> HeloSent -> HeloAccepted ->   *)
(*   MailSent -> SenderAccepted -> RcptSent -> RecipientEvaluated -> Closed*)
(* The server answers a command when it receives it; its lines queue in    *)
(* inbuf until the client reads them, one line per readResponse call.      *)
(***************************************************************************)
\* the deadline extended past the caller's timeout
SessionDeadline_Late(t) == t + Timeout + 1

\* the deadline set once the connection is open: time.Now().Add(timeout)
SessionDeadline(t) == t + Timeout

\* the test applied to the greeting, HELO and MAIL FROM reply codes
Rejected2xx(code) == code < 200 \/ code >= 300

\* net.DialTimeout fails: refused after d ticks, or timed out at Timeout
DialFail ==
  /\ pc = "probing"
  /\ sess = "Disconnected"
  /\ \E d \in 0..Timeout :
       /\ clock' = clock + d
       /\ timedOut' = (d = Timeout)
  /\ probeResult' = SMTPResult(StatusRisky, "Could not connect to SMTP server", 0)
  /\ sess' = "Closed"
  /\ UNCHANGED <<inbuf, sent, srvReply, reads, connectedAt, deadline,
                 smtpVars, anVars, cacheVars, histVars,
                 dnsVars, valVars, verVars,
                 provVars>>

\* net.DialTimeout succeeds after d ticks; conn.SetDeadline(now + timeout);
\* the server emits its greeting
DialOK ==
  /\ pc = "probing"
  /\ sess = "Disconnected"
  /\ \E d \in 0..Timeout, g \in ServerReplies :
       /\ clock' = clock + d
       /\ connectedAt' = clock + d
       /\ deadline' = SessionDeadline(clock + d)
       /\ inbuf' = g
       /\ srvReply' = <<ReplyCode(g)>>
  /\ sess' = "Connected"
  /\ UNCHANGED <<sent, reads, timedOut, probeResult, smtpVars, anVars, cacheVars, histVars,
                 dnsVars, valVars, verVars,
                 provVars>>

\* r.ReadLine() + readResponse: the next line arrives within the deadline
\* and is parsed, or the read fails (deadline passed) and the code is 0.
\* code, buf, clk, tmo are the values after the read.
ReadLine(code, buf, clk, tmo) ==
  \/ /\ inbuf # <<>>
     /\ \E d \in 0..MaxDelay :
          /\ clock + d <= deadline
          /\ clk = clock + d
     /\ code = readResponse(Head(inbuf))
     /\ buf = Tail(inbuf)
     /\ tmo = timedOut
  \/ /\ code = 0
     /\ buf = inbuf
     /\ clk = deadline
     /\ tmo = TRUE

\* the read of a reply that must be 2xx to continue (greeting, HELO, MAIL)
ReadStep(from, to, reason) ==
  /\ pc = "probing"
  /\ sess = from
  /\ \E code \in {0} \cup ReplyCodes :
       /\ ReadLine(code, inbuf', clock', timedOut')
       /\ reads' = Append(reads, code)
       /\ IF Rejected2xx(code)
            THEN /\ probeResult' = SMTPResult(StatusRisky, reason, code)
                 /\ sess' = "Closed"
            ELSE /\ probeResult' = probeResult
                 /\ sess' = to
  /\ UNCHANGED <<sent, srvReply, connectedAt, deadline, smtpVars, anVars, cacheVars, histVars,
                 dnsVars, valVars, verVars,
                 provVars>>

\* send(conn, cmd): the write fails, or the command reaches the server,
\* which answers it
SendStep(from, to, cmd, reason) ==
  /\ pc = "probing"
  /\ sess = from
  /\ \/ /\ probeResult' = SMTPResult(StatusRisky, reason, 0)
        /\ sess' = "Closed"
        /\ UNCHANGED <<sent, inbuf, srvReply,
                 dnsVars, valVars, verVars,
                 provVars>>
     \/ /\ sent' = Append(sent, cmd)
        /\ \E r \in ServerReplies :
             /\ inbuf' = inbuf \o r
             /\ srvReply' = Append(srvReply, ReplyCode(r))
        /\ sess' = to
        /\ probeResult' = probeResult
  /\ UNCHANGED <<reads, clock, connectedAt, deadline, timedOut, smtpVars, anVars, cacheVars, histVars,
                 dnsVars, valVars, verVars,
                 provVars>>

ReadGreeting == ReadStep("Connected", "Greeted", "Server greeting failed")
SendHelo == SendStep("Greeted", "HeloSent", "HELO", "HELO command failed")
ReadHelo == ReadStep("HeloSent", "HeloAccepted", "HELO command rejected")
SendMailFrom == SendStep("HeloAccepted", "MailSent", "MAIL FROM", "MAIL FROM command failed")
ReadMailFrom == ReadStep("MailSent", "SenderAccepted", "MAIL FROM command rejected")
SendRcptTo == SendStep("SenderAccepted", "RcptSent", "RCPT TO", "RCPT TO command failed")

\* the read of the reply taken as the RCPT TO reply: any code continues
ReadRcptTo ==
  /\ pc = "probing"
  /\ sess = "RcptSent"
  /\ \E code \in {0} \cup ReplyCodes :
       /\ ReadLine(code, inbuf', clock', timedOut')
       /\ reads' = Append(reads, code)
  /\ sess' = "RecipientEvaluated"
  /\ UNCHANGED <<sent, srvReply, connectedAt, deadline, probeResult,
                 smtpVars, anVars, cacheVars, histVars,
                 dnsVars, valVars, verVars,
                 provVars>>

\* send(conn, cmdQuit), its error ignored; return analyzeSMTPResponse(code);
\* the deferred conn.Close()
QuitAndAnalyze ==
  /\ pc = "probing"
  /\ sess = "RecipientEvaluated"
  /\ sent' \in {sent, Append(sent, "QUIT")}
  /\ probeResult' = analyzeSMTPResponse(reads[Len(reads)])
  /\ sess' = "Closed"
  /\ UNCHANGED <<inbuf, srvReply, reads, clock, connectedAt, deadline,
                 timedOut, smtpVars, anVars, cacheVars, histVars,
                 dnsVars, valVars, verVars,
                 provVars>>

checkSMTPServer ==
  \/ DialFail
  \/ DialOK
  \/ ReadGreeting
  \/ SendHelo
  \/ ReadHelo
  \/ SendMailFrom
  \/ ReadMailFrom
  \/ SendRcptTo
  \/ ReadRcptTo
  \/ QuitAndAnalyze

CheckSMTP ==
  \/ CheckSMTPEnter
  \/ CheckSMTPProbe
  \/ CheckSMTPIterate

\* tabulation of analyzeSMTPResponse over -NegCodes..MaxCode
Analyze ==
  /\ anResult = NoResult
  /\ anResult' = analyzeSMTPResponse(anCode)
  /\ UNCHANGED <<anCode, smtpVars, sessVars, cacheVars, histVars,
                 dnsVars, valVars, verVars,
                 provVars>>

(***************************************************************************)
(* abuseipdb.go: IPReputationResult and AbuseIPDBClient.CheckIP            *)
(***************************************************************************)
\* IPReputationResult, the fields the cache and the verdict use
IPReputationResult(ip, score, reports, at, error) ==
  [IPAddress |-> ip, AbuseConfidenceScore |-> score, TotalReports |-> reports,
   CheckedAt |-> at, Error |-> error]

\* a nil *IPReputationResult: no entry in the map, nothing returned
NoRecord == IPReputationResult("", 0, 0, 0, "nil")

\* net.ParseIP(ip) # nil
ValidIP(ip) == ip \in MailIPs

\* CheckIP(ip) called at time t: the (result, err) pairs it may return.
\* kind names the failure ("" for a successful lookup); a successful lookup
\* carries a pair the service has on record.
CheckIPOutcomes(ip, t) ==
  IF ~ValidIP(ip)
    THEN {[result |-> IPReputationResult(ip, 0, 0, t, "invalid IP address format"),
           err |-> FALSE, kind |-> "invalid_ip"]}
    ELSE {[result |-> NoRecord, err |-> TRUE, kind |-> "request"]}
         \cup
         {[result |-> IPReputationResult(ip, 0, 0, t, e.msg), err |-> FALSE,
           kind |-> e.kind] :
            e \in {[kind |-> "transport", msg |-> "HTTP request failed"],
                   [kind |-> "read", msg |-> "failed to read response"],
                   [kind |-> "status", msg |-> "API error"],
                   [kind |-> "parse", msg |-> "failed to parse response"]}}
         \cup
         {[result |-> IPReputationResult(ip, r[1], r[2], t, ""), err |-> FALSE,
           kind |-> ""] : r \in abuseIPDB}

(***************************************************************************)
(* enhanced_validator.go: the cache of EnhancedValidator                   *)
(***************************************************************************)
\* v.cacheExpiry = 24 hours = 2 ticks
cacheExpiry == 2

\* no holder of the write lock
NoThread == "none"

\* the freshness test with the comparison turned round
CacheFresh_Reversed(e, t) == t - e.CheckedAt > cacheExpiry

\* time.Since(cached.CheckedAt) < v.cacheExpiry
CacheFresh(e, t) == t - e.CheckedAt < cacheExpiry

\* the sweep's test taking an entry of exactly the TTL as expired
CacheExpired_AtTTL(e, t) == t - e.CheckedAt >= cacheExpiry

\* now.Sub(result.CheckedAt) > v.cacheExpiry
CacheExpired(e, t) == t - e.CheckedAt > cacheExpiry

\* the service where no verdict is computed from its answers: one pair on
\* record, since checkIPReputationWithCache, ClearExpiredCache and
\* GetCacheStats read neither the score nor the report count of a record
InitProvider == abuseIPDB = {<<76, 0>>}

InitCache ==
  /\ ipCache = [ip \in CacheKeys |-> NoRecord]
  /\ cacheMutex = [readers |-> {}, writer |-> NoThread]
  /\ now = 0
  /\ cpc = [t \in Threads |-> "idle"]
  /\ cip = [t \in Threads |-> ""]
  /\ cres = [t \in Threads |-> NoRecord]
  /\ cret = [t \in Threads |-> NoRecord]
  /\ calls = [t \in Threads |-> 0]
  /\ seenAge = [t \in Threads |-> -1]
  /\ seenRec = [t \in Threads |-> NoRecord]
  /\ wrote = [t \in Threads |-> FALSE]
  /\ failKind = [t \in Threads |-> ""]
  /\ swept = [t \in Threads |-> {}]

\* sync.RWMutex
CanRLock == cacheMutex.writer = NoThread
CanLock == cacheMutex.writer = NoThread /\ cacheMutex.readers = {}
RLock(t) == [cacheMutex EXCEPT !.readers = @ \cup {t}]
RUnlock(t) == [cacheMutex EXCEPT !.readers = @ \ {t}]
Lock(t) == [cacheMutex EXCEPT !.writer = t]
Unlock(t) == [cacheMutex EXCEPT !.writer = NoThread]

\* a goroutine calls checkIPReputationWithCache(ip)
LookupCall(t) ==
  /\ cpc[t] = "idle"
  /\ \E ip \in IPs : cip' = [cip EXCEPT ![t] = ip]
  /\ cpc' = [cpc EXCEPT ![t] = "rlock"]
  /\ UNCHANGED <<ipCache, cacheMutex, now, cres, cret, calls, seenAge,
                 seenRec, wrote, failKind, smtpVars, sessVars, anVars, histVars,
                 dnsVars, valVars, verVars,
                 provVars>>

\* v.cacheMutex.RLock()
LookupRLock(t) ==
  /\ cpc[t] = "rlock"
  /\ CanRLock
  /\ cacheMutex' = RLock(t)
  /\ cpc' = [cpc EXCEPT ![t] = "check"]
  /\ UNCHANGED <<ipCache, now, cip, cres, cret, calls, seenAge, seenRec,
                 wrote, failKind, smtpVars, sessVars, anVars, histVars,
                 dnsVars, valVars, verVars,
                 provVars>>

\* the lookup with RUnlock on the path of a fresh entry only
LookupCheck_NoRUnlockOnMiss(t) ==
  /\ cpc[t] = "check"
  /\ LET cached == ipCache[cip[t]]
         exists == cached # NoRecord
     IN /\ seenRec' = [seenRec EXCEPT
                         ![t] = IF exists /\ now - cached.CheckedAt < cacheExpiry
                                  THEN cached ELSE NoRecord]
        /\ seenAge' = [seenAge EXCEPT
                         ![t] = IF exists THEN now - cached.CheckedAt ELSE -1]
        /\ IF exists /\ CacheFresh(cached, now)
             THEN /\ cret' = [cret EXCEPT ![t] = cached]
                  /\ cpc' = [cpc EXCEPT ![t] = "done"]
             ELSE /\ cret' = cret
                  /\ cpc' = [cpc EXCEPT ![t] = "fetch"]
  /\ cacheMutex' = IF cpc'[t] = "done" THEN RUnlock(t) ELSE cacheMutex
  /\ UNCHANGED <<ipCache, now, cip, cres, calls, wrote, failKind,
                 smtpVars, sessVars, anVars, histVars,
                 dnsVars, valVars, verVars,
                 provVars>>

\* the map read and the freshness test under the read lock; RUnlock on
\* both paths; a fresh entry is returned
LookupCheck(t) ==
  /\ cpc[t] = "check"
  /\ LET cached == ipCache[cip[t]]
         exists == cached # NoRecord
     IN /\ seenRec' = [seenRec EXCEPT
                         ![t] = IF exists /\ now - cached.CheckedAt < cacheExpiry
                                  THEN cached ELSE NoRecord]
        /\ seenAge' = [seenAge EXCEPT
                         ![t] = IF exists THEN now - cached.CheckedAt ELSE -1]
        /\ IF exists /\ CacheFresh(cached, now)
             THEN /\ cret' = [cret EXCEPT ![t] = cached]
                  /\ cpc' = [cpc EXCEPT ![t] = "done"]
             ELSE /\ cret' = cret
                  /\ cpc' = [cpc EXCEPT ![t] = "fetch"]
  /\ cacheMutex' = RUnlock(t)
  /\ UNCHANGED <<ipCache, now, cip, cres, calls, wrote, failKind,
                 smtpVars, sessVars, anVars, histVars,
                 dnsVars, valVars, verVars,
                 provVars>>

\* result, err := v.abuseIPDB.CheckIP(ip); on err an uncached error record
\* is returned
LookupFetch(t) ==
  /\ cpc[t] = "fetch"
  /\ \E o \in CheckIPOutcomes(cip[t], now) :
       /\ failKind' = [failKind EXCEPT ![t] = o.kind]
       /\ IF o.err
            THEN /\ cret' = [cret EXCEPT
                               ![t] = IPReputationResult(cip[t], 0, 0, now, "API error")]
                 /\ cres' = cres
                 /\ cpc' = [cpc EXCEPT ![t] = "done"]
            ELSE /\ cres' = [cres EXCEPT ![t] = o.result]
                 /\ cret' = cret
                 /\ cpc' = [cpc EXCEPT ![t] = "lock"]
  /\ calls' = [calls EXCEPT ![t] = @ + 1]
  /\ UNCHANGED <<ipCache, cacheMutex, now, cip, seenAge, seenRec, wrote,
                 swept, smtpVars, sessVars, anVars,
                 dnsVars, valVars, verVars,
                 provVars>>

\* v.cacheMutex.Lock()
LookupLock(t) ==
  /\ cpc[t] = "lock"
  /\ CanLock
  /\ cacheMutex' = Lock(t)
  /\ cpc' = [cpc EXCEPT ![t] = "write"]
  /\ UNCHANGED <<ipCache, now, cip, cres, cret, calls, seenAge, seenRec,
                 wrote, failKind, smtpVars, sessVars, anVars, histVars,
                 dnsVars, valVars, verVars,
                 provVars>>

\* v.ipCache[ip] = result; v.cacheMutex.Unlock(); return result
LookupWrite(t) ==
  /\ cpc[t] = "write"
  /\ ipCache' = [ipCache EXCEPT ![cip[t]] = cres[t]]
  /\ cacheMutex' = Unlock(t)
  /\ cret' = [cret EXCEPT ![t] = cres[t]]
  /\ wrote' = [wrote EXCEPT ![t] = TRUE]
  /\ cpc' = [cpc EXCEPT ![t] = "done"]
  /\ UNCHANGED <<now, cip, cres, calls, seenAge, seenRec, failKind, swept,
                 smtpVars, sessVars, anVars,
                 dnsVars, valVars, verVars,
                 provVars>>

\* the caller has the returned record; the goroutine is free again
LookupReturn(t) ==
  /\ cpc[t] = "done"
  /\ cpc' = [cpc EXCEPT ![t] = "idle"]
  /\ cip' = [cip EXCEPT ![t] = ""]
  /\ cres' = [cres EXCEPT ![t] = NoRecord]
  /\ cret' = [cret EXCEPT ![t] = NoRecord]
  /\ calls' = [calls EXCEPT ![t] = 0]
  /\ seenAge' = [seenAge EXCEPT ![t] = -1]
  /\ seenRec' = [seenRec EXCEPT ![t] = NoRecord]
  /\ wrote' = [wrote EXCEPT ![t] = FALSE]
  /\ failKind' = [failKind EXCEPT ![t] = ""]
  /\ UNCHANGED <<ipCache, cacheMutex, now, swept, smtpVars,
                 sessVars, anVars,
                 dnsVars, valVars, verVars,
                 provVars>>

checkIPReputationWithCache(t) ==
  \/ LookupCall(t)
  \/ LookupRLock(t)
  \/ LookupCheck(t)
  \/ LookupFetch(t)
  \/ LookupLock(t)
  \/ LookupWrite(t)
  \/ LookupReturn(t)

\* a goroutine calls ClearExpiredCache()
SweepCall(t) ==
  /\ cpc[t] = "idle"
  /\ cpc' = [cpc EXCEPT ![t] = "sweepLock"]
  /\ UNCHANGED <<ipCache, cacheMutex, now, cip, cres, cret, calls, seenAge,
                 seenRec, wrote, failKind, smtpVars, sessVars, anVars, histVars,
                 dnsVars, valVars, verVars,
                 provVars>>

\* v.cacheMutex.Lock()
SweepLock(t) ==
  /\ cpc[t] = "sweepLock"
  /\ CanLock
  /\ cacheMutex' = Lock(t)
  /\ cpc' = [cpc EXCEPT ![t] = "sweep"]
  /\ UNCHANGED <<ipCache, now, cip, cres, cret, calls, seenAge, seenRec,
                 wrote, failKind, smtpVars, sessVars, anVars, histVars,
                 dnsVars, valVars, verVars,
                 provVars>>

\* the range loop deleting expired entries; the deferred Unlock
SweepDelete(t) ==
  /\ cpc[t] = "sweep"
  /\ ipCache' = [ip \in CacheKeys |->
                   IF ipCache[ip] # NoRecord /\ CacheExpired(ipCache[ip], now)
                     THEN NoRecord
                     ELSE ipCache[ip]]
  /\ swept' = [swept EXCEPT
                  ![t] = {ip \in CacheKeys : ipCache[ip] # NoRecord
                                        /\ ipCache'[ip] = NoRecord}]
  /\ cacheMutex' = Unlock(t)
  /\ cpc' = [cpc EXCEPT ![t] = "swept"]
  /\ UNCHANGED <<now, cip, cres, cret, calls, seenAge, seenRec, wrote,
                 failKind, smtpVars, sessVars, anVars,
                 dnsVars, valVars, verVars,
                 provVars>>

\* ClearExpiredCache has returned; the goroutine is free again
SweepReturn(t) ==
  /\ cpc[t] = "swept"
  /\ cpc' = [cpc EXCEPT ![t] = "idle"]
  /\ swept' = [swept EXCEPT ![t] = {}]
  /\ UNCHANGED <<ipCache, cacheMutex, now, cip, cres, cret, calls, seenAge,
                 seenRec, wrote, failKind, smtpVars,
                 sessVars, anVars,
                 dnsVars, valVars, verVars,
                 provVars>>

ClearExpiredCache(t) ==
  SweepCall(t) \/ SweepLock(t) \/ SweepDelete(t) \/ SweepReturn(t)

\* a goroutine calls GetCacheStats()
StatsCall(t) ==
  /\ cpc[t] = "idle"
  /\ cpc' = [cpc EXCEPT ![t] = "statsLock"]
  /\ UNCHANGED <<ipCache, cacheMutex, now, cip, cres, cret, calls, seenAge,
                 seenRec, wrote, failKind, smtpVars, sessVars, anVars, histVars,
                 dnsVars, valVars, verVars,
                 provVars>>

\* v.cacheMutex.RLock()
StatsRLock(t) ==
  /\ cpc[t] = "statsLock"
  /\ CanRLock
  /\ cacheMutex' = RLock(t)
  /\ cpc' = [cpc EXCEPT ![t] = "stats"]
  /\ UNCHANGED <<ipCache, now, cip, cres, cret, calls, seenAge, seenRec,
                 wrote, failKind, smtpVars, sessVars, anVars, histVars,
                 dnsVars, valVars, verVars,
                 provVars>>

\* len(v.ipCache) is read; the deferred RUnlock
StatsRead(t) ==
  /\ cpc[t] = "stats"
  /\ cacheMutex' = RUnlock(t)
  /\ cpc' = [cpc EXCEPT ![t] = "idle"]
  /\ UNCHANGED <<ipCache, now, cip, cres, cret, calls, seenAge, seenRec,
                 wrote, failKind, smtpVars, sessVars, anVars, histVars,
                 dnsVars, valVars, verVars,
                 provVars>>

GetCacheStats(t) == StatsCall(t) \/ StatsRLock(t) \/ StatsRead(t)

\* the wall clock advances
Tick ==
  /\ now < MaxTime
  /\ now' = now + 1
  /\ UNCHANGED <<ipCache, cacheMutex, cpc, cip, cres, cret, calls, seenAge,
                 seenRec, wrote, failKind, smtpVars, sessVars, anVars, histVars,
                 dnsVars, valVars, verVars,
                 provVars>>

(***************************************************************************)
(* dns.go: CheckMX, CheckA, ValidateDomain                                 *)
(***************************************************************************)
\* net.MX{Host, Pref}
MX(h, p) == [Host |-> h, Pref |-> p]

\* what net.LookupMX may answer: a DNSError with IsNotFound, one with
\* IsTimeout, another error, or a record list (possibly empty)
LookupMXOutcomes ==
  {[kind |-> k, recs |-> <<>>] : k \in {"notfound", "timeout", "error"}}
  \cup
  {[kind |-> "ok", recs |-> r] :
     r \in UNION {[1..n -> {MX(h, p) : h \in Hosts, p \in Prefs}] : n \in 0..MaxMX}}

\* what net.LookupIP / net.LookupHost may answer for the domain
LookupIPOutcomes == {"notfound", "timeout", "error", "empty", "ok"}

Zones == {[mx |-> m, a |-> a] : m \in LookupMXOutcomes, a \in LookupIPOutcomes}
\* the resolver has not been asked about the domain
NoZone == [mx |-> [kind |-> "unknown", recs |-> <<>>], a |-> "unknown"]

\* the permutations of 1..n
Perms(n) == {f \in [1..n -> 1..n] : \A i, j \in 1..n : f[i] = f[j] => i = j}

SortedByPref(recs) ==
  \A i, j \in 1..Len(recs) : i < j => recs[i].Pref <= recs[j].Pref

\* sort.Slice(mxRecords, less by Pref): the slice ends up sorted; sort.Slice
\* does not promise to keep equal elements in their original order
SortSlice(recs) ==
  {s \in {[i \in 1..Len(recs) |-> recs[f[i]]] : f \in Perms(Len(recs))} :
     SortedByPref(s)}

\* the error of CheckMX ("" for nil)
CheckMXErr(l) ==
  IF l.kind = "notfound" THEN "domain does not exist"
  ELSE IF l.kind = "timeout" THEN "DNS lookup timeout"
  ELSE IF l.kind # "ok" THEN "failed to lookup MX records"
  ELSE IF Len(l.recs) = 0 THEN "no MX records found for the domain"
  ELSE ""

\* the (records, error) pairs CheckMX may return
CheckMXOutcomes(l) ==
  IF CheckMXErr(l) # ""
    THEN {[recs |-> <<>>, err |-> CheckMXErr(l)]}
    ELSE {[recs |-> r, err |-> ""] : r \in SortSlice(l.recs)}

\* the error of CheckA ("" for nil)
CheckA(a) ==
  IF a = "notfound" THEN "domain does not exist"
  ELSE IF a = "timeout" THEN "DNS lookup timeout"
  ELSE IF a # "ok" /\ a # "empty" THEN "failed to lookup A records"
  ELSE IF a = "empty" THEN "no A records found for the domain"
  ELSE ""

\* ValidateDomain returning the error of the address lookup when both fail
ValidateDomainErr_AErr(z) ==
  IF CheckMXErr(z.mx) = "" THEN ""
  ELSE IF CheckA(z.a) # "" THEN CheckA(z.a)
  ELSE ""

\* the error of ValidateDomain ("" for nil): the MX error when both fail
ValidateDomainErr(z) ==
  IF CheckMXErr(z.mx) = "" THEN ""
  ELSE IF CheckA(z.a) # "" THEN CheckMXErr(z.mx)
  ELSE ""

NotCalled == "not called"
NoMXRet == [recs |-> <<>>, err |-> NotCalled]

IdleDNS ==
  /\ zone = NoZone
  /\ mxRet = NoMXRet
  /\ vdRet = NotCalled

\* CheckMX(domain)
CheckMX ==
  /\ zone # NoZone
  /\ mxRet = NoMXRet
  /\ \E o \in CheckMXOutcomes(zone.mx) : mxRet' = o
  /\ UNCHANGED <<zone, vdRet, smtpVars, sessVars, anVars, cacheVars, histVars,
                 valVars, verVars,
                 provVars>>

\* ValidateDomain(domain)
ValidateDomain ==
  /\ zone # NoZone
  /\ vdRet = NotCalled
  /\ vdRet' = ValidateDomainErr(zone)
  /\ UNCHANGED <<zone, mxRet, smtpVars, sessVars, anVars, cacheVars, histVars,
                 valVars, verVars,
                 provVars>>

(***************************************************************************)
(* Addresses are sequences of one-character strings.                       *)
(***************************************************************************)
Lower == {"a", "b", "c", "d", "e", "f", "g", "h", "i", "j", "k", "l", "m",
          "n", "o", "p", "q", "r", "s", "t", "u", "v", "w", "x", "y", "z"}
Upper == {"A", "E", "S", "T"}
Digits == {"0", "1", "2", "3", "4", "5", "6", "7", "8", "9"}
IsAlpha(c) == c \in Lower \cup Upper
IsAlnum(c) == IsAlpha(c) \/ c \in Digits

\* strings.ToLower
ToLowerChar(c) ==
  IF c = "A" THEN "a" ELSE IF c = "E" THEN "e" ELSE IF c = "S" THEN "s"
  ELSE IF c = "T" THEN "t" ELSE c
ToLower(s) == [i \in 1..Len(s) |-> ToLowerChar(s[i])]

\* strings.Contains
Contains(s, p) ==
  \E k \in 0..(Len(s) - Len(p)) : \A j \in 1..Len(p) : s[k + j] = p[j]

\* strings.Split(s, "@"): the positions of the separators, and the parts
AtPositions(s) == {i \in 1..Len(s) : s[i] = "@"}
LocalPart(s) == SubSeq(s, 1, (CHOOSE i \in AtPositions(s) : TRUE) - 1)
DomainPart(s) == SubSeq(s, (CHOOSE i \in AtPositions(s) : TRUE) + 1, Len(s))

(***************************************************************************)
(* syntax.go: IsValidSyntax                                                *)
(***************************************************************************)
\* [a-z0-9!#$%&'*+\/=?^_\x60{|}~-] under (?i); "grave" stands for the
\* character \x60
AtomChar(c) ==
  \/ IsAlnum(c)
  \/ c \in {"!", "#", "$", "%", "&", "'", "*", "+", "/", "=", "?", "^", "_",
            "grave", "{", "|", "}", "~", "-"}

\* atom(\.atom)*: atoms of AtomChar separated by single dots
MatchAtoms(l) ==
  /\ Len(l) >= 1
  /\ \A k \in 1..Len(l) : AtomChar(l[k]) \/ l[k] = "."
  /\ l[1] # "." /\ l[Len(l)] # "."
  /\ \A k \in 1..(Len(l) - 1) : ~(l[k] = "." /\ l[k + 1] = ".")

\* (label\.)+label: two or more labels of letters, digits and hyphens, each
\* starting and ending with a letter or digit
MatchLabels(d) ==
  /\ Len(d) >= 1
  /\ \A k \in 1..Len(d) : IsAlnum(d[k]) \/ d[k] = "-" \/ d[k] = "."
  /\ \E k \in 1..Len(d) : d[k] = "."
  /\ IsAlnum(d[1]) /\ IsAlnum(d[Len(d)])
  /\ \A k \in 1..Len(d) :
       d[k] = "." => (k > 1 /\ k < Len(d) /\ IsAlnum(d[k - 1]) /\ IsAlnum(d[k + 1]))

\* emailRegex.MatchString(email) of syntax.go
MatchSyntaxRegex(s) ==
  \E i \in AtPositions(s) :
    MatchAtoms(SubSeq(s, 1, i - 1)) /\ MatchLabels(SubSeq(s, i + 1, Len(s)))

IsValidSyntax(s) ==
  IF Len(s) = 0 \/ Len(s) > 254 THEN FALSE
  ELSE IF ~MatchSyntaxRegex(s) THEN FALSE
  ELSE IF Cardinality(AtPositions(s)) # 1 THEN FALSE
  ELSE IF Len(LocalPart(s)) > 64 THEN FALSE
  ELSE IF Len(DomainPart(s)) > 253 THEN FALSE
  ELSE IF Contains(s, <<".", ".">>) THEN FALSE
  ELSE IF LocalPart(s)[1] = "." \/ LocalPart(s)[Len(LocalPart(s))] = "." THEN FALSE
  ELSE TRUE

(***************************************************************************)
(* validator.go: Validator                                                 *)
(***************************************************************************)
\* ^[a-zA-Z0-9._%+-]+@[a-zA-Z0-9.-]+\.[a-zA-Z]{2,}$
\* i is the place of the "@", j the place of the dot before the last part
MatchEmailRegex(s) ==
  \E i \in AtPositions(s) :
    /\ i > 1
    /\ \A k \in 1..(i - 1) : IsAlnum(s[k]) \/ s[k] \in {".", "_", "%", "+", "-"}
    /\ \E j \in (i + 2)..(Len(s) - 2) :
         /\ s[j] = "."
         /\ \A k \in (i + 1)..(j - 1) : IsAlnum(s[k]) \/ s[k] \in {".", "-"}
         /\ \A k \in (j + 1)..Len(s) : IsAlpha(s[k])

\* Result{Status, Reason, Metadata}; Metadata is kept as its set of keys
Result(st, r, m) == [Status |-> st, Reason |-> r, Metadata |-> m]
NoVerdict == Result("", "", {})

suspiciousPatterns ==
  <<<<"t", "e", "m", "p">>,
    <<"t", "e", "m", "p", "o", "r", "a", "r", "y">>,
    <<"d", "i", "s", "p", "o", "s", "a", "b", "l", "e">>,
    <<"t", "h", "r", "o", "w", "a", "w", "a", "y">>,
    <<"f", "a", "k", "e">>,
    <<"t", "e", "s", "t">>,
    <<"e", "x", "a", "m", "p", "l", "e">>,
    <<"i", "n", "v", "a", "l", "i", "d">>,
    <<"l", "o", "c", "a", "l", "h", "o", "s", "t">>>>

disposableDomains ==
  {<<"1", "0", "m", "i", "n", "u", "t", "e", "m", "a", "i", "l", ".", "c", "o", "m">>,
   <<"g", "u", "e", "r", "r", "i", "l", "l", "a", "m", "a", "i", "l", ".", "c", "o", "m">>,
   <<"m", "a", "i", "l", "i", "n", "a", "t", "o", "r", ".", "c", "o", "m">>,
   <<"t", "e", "m", "p", "m", "a", "i", "l", ".", "o", "r", "g">>,
   <<"t", "h", "r", "o", "w", "a", "w", "a", "y", ".", "e", "m", "a", "i", "l">>,
   <<"y", "o", "p", "m", "a", "i", "l", ".", "c", "o", "m">>,
   <<"t", "e", "m", "p", "-", "m", "a", "i", "l", ".", "o", "r", "g">>,
   <<"g", "e", "t", "a", "i", "r", "m", "a", "i", "l", ".", "c", "o", "m">>,
   <<"s", "h", "a", "r", "k", "l", "a", "s", "e", "r", "s", ".", "c", "o", "m">>}

\* validateDomain(domain) when the resolver answers z; ops are the lookups
\* it starts.  The reason of a pattern match leaves out the pattern's text.
validateDomain(domain, z) ==
  IF z.a \notin {"ok", "empty"}
    THEN [valid |-> FALSE, reason |-> "domain does not resolve",
          metadata |-> {}, ops |-> <<"LookupHost">>]
  ELSE IF z.mx.kind # "ok" \/ Len(z.mx.recs) = 0
    THEN [valid |-> FALSE, reason |-> "no MX records found",
          metadata |-> {"domain_resolves"}, ops |-> <<"LookupHost", "LookupMX">>]
  ELSE IF \E k \in 1..Len(suspiciousPatterns) :
            Contains(ToLower(domain), suspiciousPatterns[k])
    THEN [valid |-> FALSE, reason |-> "domain contains suspicious pattern",
          metadata |-> {"domain_resolves", "mx_records", "mx_count"},
          ops |-> <<"LookupHost", "LookupMX">>]
  ELSE IF ToLower(domain) \in disposableDomains
    THEN [valid |-> FALSE, reason |-> "disposable email domain detected",
          metadata |-> {"domain_resolves", "mx_records", "mx_count"},
          ops |-> <<"LookupHost", "LookupMX">>]
  ELSE [valid |-> TRUE, reason |-> "domain validation passed",
        metadata |-> {"domain_resolves", "mx_records", "mx_count"},
        ops |-> <<"LookupHost", "LookupMX">>]

\* steps 1 to 4 of ValidateEmail: the reason the address is rejected for
\* before any lookup ("" when it is not)
FormatError(e) ==
  IF ~MatchEmailRegex(e) THEN "invalid email format"
  ELSE IF Cardinality(AtPositions(e)) # 1 THEN "invalid email format"
  ELSE IF Len(LocalPart(e)) = 0 \/ Len(LocalPart(e)) > 64
    THEN "invalid local part length"
  ELSE IF Len(DomainPart(e)) = 0 \/ Len(DomainPart(e)) > 253
    THEN "invalid domain length"
  ELSE ""

\* ValidateEmail(email) when the resolver answers z: the Result and the
\* lookups started
ValidateEmailOf(e, z) ==
  IF FormatError(e) # ""
    THEN [result |-> Result("invalid", FormatError(e), {}), ops |-> <<>>]
    ELSE LET d == validateDomain(DomainPart(e), z)
         IN IF ~d.valid
              THEN [result |-> Result("invalid", d.reason, d.metadata), ops |-> d.ops]
              ELSE [result |-> Result("valid", "email appears valid", d.metadata),
                    ops |-> d.ops]

\* every address of at most MaxEmailLen characters of Alphabet
Strings == UNION {[1..n -> Alphabet] : n \in 0..MaxEmailLen}

\* addresses and domains picked to reach each branch of ValidateEmail:
\* a@a.aa, a@test.aa, a@TEST.aa, a@yopmail.com, .a@a.aa, a, and a local
\* part of 65 characters
SampleEmails ==
  {<<"a", "@", "a", ".", "a", "a">>,
   <<"a", "@", "t", "e", "s", "t", ".", "a", "a">>,
   <<"a", "@", "T", "E", "S", "T", ".", "a", "a">>,
   <<"a", "@", "y", "o", "p", "m", "a", "i", "l", ".", "c", "o", "m">>,
   <<".", "a", "@", "a", ".", "a", "a">>,
   <<"a">>,
   [i \in 1..65 |-> "a"] \o <<"@", "a", ".", "a", "a">>}

\* the lists ValidateBatch is called with
Batches == UNION {[1..n -> SampleEmails] : n \in 0..MaxBatch}

\* the answers the resolver may give to the lookups for address e: any,
\* unless it has answered already; no answer when nothing is looked up
ZoneAnswers(e) ==
  IF FormatError(e) # "" THEN {NoZone}
  ELSE IF zone = NoZone THEN Zones
  ELSE {zone}

IdleValidate ==
  /\ email = <<>>
  /\ vpc = "idle"
  /\ result = NoVerdict
  /\ netOps = <<>>
  /\ emails = <<>>
  /\ results = <<>>

\* v.ValidateEmail(email)
ValidateEmail ==
  /\ vpc = "start"
  /\ \E z \in ZoneAnswers(email) :
       LET r == ValidateEmailOf(email, z)
       IN /\ result' = r.result
          /\ netOps' = r.ops
          /\ zone' = IF r.ops = <<>> THEN zone ELSE z
  /\ vpc' = "basic"
  /\ UNCHANGED <<email, emails, results, mxRet, vdRet, smtpVars, sessVars,
                 anVars, cacheVars, histVars, verVars,
                 provVars>>

\* one iteration of the loop of ValidateBatch: results[i] = v.ValidateEmail(email)
ValidateBatch ==
  /\ vpc = "batch"
  /\ Len(results) < Len(emails)
  /\ \E z \in ZoneAnswers(emails[Len(results) + 1]) :
       LET r == ValidateEmailOf(emails[Len(results) + 1], z)
       IN /\ results' = Append(results, r.result)
          /\ netOps' = netOps \o r.ops
  /\ UNCHANGED <<email, vpc, result, emails, zone, mxRet, vdRet, smtpVars,
                 sessVars, anVars, cacheVars, histVars, verVars,
                 provVars>>

(***************************************************************************)
(* enhanced_validator.go: ValidateEmailWithReputation                      *)
(***************************************************************************)
\* the goroutine running the verification
Verifier == "t1"

\* the sequences of distinct mail-server IPs
DistinctIPLists ==
  {s \in UNION {[1..n -> MailIPs] : n \in 0..Cardinality(MailIPs)} :
     \A i, j \in 1..Len(s) : s[i] = s[j] => i = j}

\* GetMailServerIPs(domain): the MX lookup fails, or each of the n MX hosts
\* is resolved and the distinct addresses found are returned (none when
\* every host lookup fails); hosts counts the host lookups started
GetMailServerIPsOutcomes(n) ==
  {[err |-> TRUE, ips |-> <<>>, hosts |-> 0]}
  \cup
  {[err |-> FALSE, ips |-> l, hosts |-> n] :
     l \in IF n = 0 THEN {<<>>} ELSE DistinctIPLists}

\* ipResult.AbuseConfidenceScore >= 75 || ipResult.TotalReports >= 50
HighRisk_AtThreshold(r) == r.AbuseConfidenceScore >= 75 \/ r.TotalReports >= 50

\* ipResult.AbuseConfidenceScore > 75 || ipResult.TotalReports > 50
HighRisk(r) == r.AbuseConfidenceScore > 75 \/ r.TotalReports > 50

\* the result of a failed GetMailServerIPs, made suspicious
LookupFailedResult_Downgrade(r) ==
  [r EXCEPT !.Status = "suspicious",
            !.Metadata = @ \cup {"ip_reputation_error"}]

\* result.Metadata["ip_reputation_error"] = ...; the status is left alone
LookupFailedResult(r) == [r EXCEPT !.Metadata = @ \cup {"ip_reputation_error"}]

\* len(ips) == 0
NoMailServersResult(r) ==
  [r EXCEPT !.Status = "suspicious", !.Reason = "no mail servers found for domain"]

IdleVerify ==
  /\ basicResult = NoVerdict
  /\ ips = <<>>
  /\ reputationResults = <<>>
  /\ highRiskFound = FALSE

\* the gate letting every basic result but "invalid" through
ReputationGate_OnlyInvalidStops ==
  /\ vpc = "basic"
  /\ basicResult' = result
  /\ IF result.Status = "invalid" /\ netOps = <<>>
       THEN vpc' = "returned" /\ result' = result
       ELSE IF Cardinality(AtPositions(email)) # 1
         THEN /\ vpc' = "returned"
              /\ result' = [result EXCEPT !.Status = "invalid",
                                          !.Reason = "invalid email format"]
         ELSE vpc' = "resolve" /\ result' = result
  /\ UNCHANGED <<email, netOps, emails, results, ips, reputationResults,
                 highRiskFound, smtpVars, sessVars, anVars, cacheVars, histVars,
                 dnsVars,
                 provVars>>

\* the test of the basic result and the split of the address
ReputationGate ==
  /\ vpc = "basic"
  /\ basicResult' = result
  /\ IF result.Status # "valid"
       THEN vpc' = "returned" /\ result' = result
       ELSE IF Cardinality(AtPositions(email)) # 1
         THEN /\ vpc' = "returned"
              /\ result' = [result EXCEPT !.Status = "invalid",
                                          !.Reason = "invalid email format"]
         ELSE vpc' = "resolve" /\ result' = result
  /\ UNCHANGED <<email, netOps, emails, results, ips, reputationResults,
                 highRiskFound, smtpVars, sessVars, anVars, cacheVars, histVars,
                 dnsVars,
                 provVars>>

\* ips, err := GetMailServerIPs(domain) and the two early returns
ResolveMailServers ==
  /\ vpc = "resolve"
  /\ \E o \in GetMailServerIPsOutcomes(Len(zone.mx.recs)) :
       /\ netOps' = netOps \o <<"LookupMX">> \o [i \in 1..o.hosts |-> "LookupHost"]
       /\ ips' = o.ips
       /\ IF o.err
            THEN vpc' = "returned" /\ result' = LookupFailedResult(result)
            ELSE IF Len(o.ips) = 0
              THEN vpc' = "returned" /\ result' = NoMailServersResult(result)
              ELSE vpc' = "loop" /\ result' = result
  /\ UNCHANGED <<email, emails, results, basicResult, reputationResults,
                 highRiskFound, smtpVars, sessVars, anVars, cacheVars, histVars,
                 dnsVars,
                 provVars>>

\* ipResult := v.checkIPReputationWithCache(ip): the call
ReputationCall ==
  /\ vpc = "loop"
  /\ Len(reputationResults) < Len(ips)
  /\ cpc[Verifier] = "idle"
  /\ cip' = [cip EXCEPT ![Verifier] = ips[Len(reputationResults) + 1]]
  /\ cpc' = [cpc EXCEPT ![Verifier] = "rlock"]
  /\ vpc' = "lookup"
  /\ UNCHANGED <<ipCache, cacheMutex, now, cres, cret, calls, seenAge, seenRec,
                 wrote, failKind, email, result, netOps, emails, results,
                 smtpVars, sessVars, anVars, histVars, dnsVars, verVars,
                 provVars>>

\* the returned record is appended and tested against the thresholds
ReputationCollect ==
  /\ vpc = "lookup"
  /\ cpc[Verifier] = "done"
  /\ reputationResults' = Append(reputationResults, cret[Verifier])
  /\ highRiskFound' = (highRiskFound \/ HighRisk(cret[Verifier]))
  /\ vpc' = "loop"
  /\ cpc' = [cpc EXCEPT ![Verifier] = "idle"]
  /\ cip' = [cip EXCEPT ![Verifier] = ""]
  /\ cres' = [cres EXCEPT ![Verifier] = NoRecord]
  /\ cret' = [cret EXCEPT ![Verifier] = NoRecord]
  /\ calls' = [calls EXCEPT ![Verifier] = 0]
  /\ seenAge' = [seenAge EXCEPT ![Verifier] = -1]
  /\ seenRec' = [seenRec EXCEPT ![Verifier] = NoRecord]
  /\ wrote' = [wrote EXCEPT ![Verifier] = FALSE]
  /\ failKind' = [failKind EXCEPT ![Verifier] = ""]
  /\ UNCHANGED <<ipCache, cacheMutex, now, email, result, netOps, emails,
                 results, basicResult, ips, smtpVars, sessVars, anVars, histVars,
                 dnsVars,
                 provVars>>

\* after the loop: the downgrade and the metadata
ReputationFinish ==
  /\ vpc = "loop"
  /\ Len(reputationResults) = Len(ips)
  /\ result' = [result EXCEPT
                  !.Status = IF highRiskFound THEN "suspicious" ELSE @,
                  !.Reason = IF highRiskFound
                               THEN "mail server IP has poor reputation" ELSE @,
                  !.Metadata = @ \cup {"ip_reputation", "mail_server_ips"}]
  /\ vpc' = "returned"
  /\ UNCHANGED <<email, netOps, emails, results, smtpVars, sessVars, anVars,
                 cacheVars, histVars, dnsVars, verVars,
                 provVars>>

ValidateEmailWithReputation ==
  \/ ValidateEmail
  \/ ReputationGate
  \/ ResolveMailServers
  \/ ReputationCall
  \/ \E t \in {Verifier} :
       LookupRLock(t) \/ LookupCheck(t) \/ LookupFetch(t) \/ LookupLock(t)
         \/ LookupWrite(t)
  \/ ReputationCollect
  \/ ReputationFinish

\* the caller verifies the same address once more
VerifyAgain ==
  /\ vpc = "returned"
  /\ vpc' = "start"
  /\ result' = NoVerdict
  /\ netOps' = <<>>
  /\ basicResult' = NoVerdict
  /\ ips' = <<>>
  /\ reputationResults' = <<>>
  /\ highRiskFound' = FALSE
  /\ UNCHANGED <<email, emails, results, smtpVars, sessVars, anVars, cacheVars,
                 histVars, dnsVars,
                 provVars>>

\* the states in which nothing of a part has started
IdleSMTP ==
  /\ servers = <<>>
  /\ pc = "done"
  /\ idx = 0
  /\ probed = <<>>
  /\ outcomes = <<>>
  /\ smtpResult = NoResult
  /\ SessionIdle

IdleAnalyze ==
  /\ anCode = 0
  /\ anResult = NoResult

\* CheckSMTP over every server list and every server behaviour
Init == InitSMTP /\ IdleAnalyze /\ InitCache /\ IdleDNS /\ IdleValidate
  /\ IdleVerify /\ InitProvider
Next == CheckSMTP \/ checkSMTPServer
Spec == Init /\ [][Next]_vars

\* analyzeSMTPResponse over every code of -NegCodes..MaxCode
InitTable == IdleSMTP /\ InitAnalyze /\ InitCache /\ IdleDNS /\ IdleValidate
  /\ IdleVerify /\ InitProvider
NextAnalyze == Analyze
SpecAnalyze == InitTable /\ [][NextAnalyze]_vars

\* the goroutines of Threads using one EnhancedValidator
InitShared == IdleSMTP /\ IdleAnalyze /\ InitCache /\ IdleDNS /\ IdleValidate
  /\ IdleVerify /\ InitProvider
NextCache ==
  \/ \E t \in Threads : checkIPReputationWithCache(t)
  \/ \E t \in Threads : ClearExpiredCache(t)
  \/ \E t \in Threads : GetCacheStats(t)
  \/ Tick
SpecCache == InitShared /\ [][NextCache]_vars

\* dns.go and Validator on the sample addresses, over every answer of the
\* resolver
InitDNS ==
  /\ IdleSMTP /\ IdleAnalyze /\ InitCache
  /\ zone \in Zones
  /\ mxRet = NoMXRet
  /\ vdRet = NotCalled
  /\ email \in SampleEmails
  /\ vpc = "start"
  /\ result = NoVerdict
  /\ netOps = <<>>
  /\ emails = <<>>
  /\ results = <<>>
  /\ IdleVerify /\ InitProvider
NextDNS == CheckMX \/ ValidateDomain \/ ValidateEmail
SpecDNS == InitDNS /\ [][NextDNS]_vars

\* ValidateEmail on every address of Strings, ValidateBatch on every list of
\* Batches
InitValidate ==
  /\ IdleSMTP /\ IdleAnalyze /\ InitCache /\ IdleDNS
  /\ \/ email \in Strings /\ vpc = "start" /\ emails = <<>>
     \/ email = <<>> /\ vpc = "batch" /\ emails \in Batches
  /\ result = NoVerdict
  /\ netOps = <<>>
  /\ results = <<>>
  /\ IdleVerify /\ InitProvider
NextValidate == ValidateEmail \/ ValidateBatch
SpecValidate == InitValidate /\ [][NextValidate]_vars

\* ValidateEmailWithReputation, again and again as time passes, on a sample
\* address of a domain with one of the sample zones
SampleZones ==
  {[mx |-> m, a |-> a] :
     m \in {[kind |-> "notfound", recs |-> <<>>],
            [kind |-> "ok", recs |-> <<>>],
            [kind |-> "ok", recs |-> <<MX("mx1", 10)>>]},
     a \in {"ok", "notfound"}}
InitVerify ==
  /\ IdleSMTP /\ IdleAnalyze /\ InitCache
  /\ zone \in SampleZones
  /\ mxRet = NoMXRet
  /\ vdRet = NotCalled
  /\ email \in SampleEmails
  /\ vpc = "start"
  /\ result = NoVerdict
  /\ netOps = <<>>
  /\ emails = <<>>
  /\ results = <<>>
  /\ IdleVerify
  /\ abuseIPDB = ReputationSamples
NextVerify == ValidateEmailWithReputation \/ VerifyAgain \/ Tick
SpecVerify == InitVerify /\ [][NextVerify]_vars

(***************************************************************************)
(* Properties of CheckSMTP and checkSMTPServer, under Spec.                *)
(***************************************************************************)
Is2xx(code) == code >= 200 /\ code <= 299

\* C1: CheckSMTP probes the servers in list order, one session at a time,
\* each list element at most once; a Valid or Invalid probe result is
\* returned at once and is the last probe made; a Risky probe result always
\* makes the loop go on to the next server while one is left.
C1_ProbeOrder ==
  /\ Len(probed) <= Len(servers)
  /\ probed = SubSeq(servers, 1, Len(probed))
  /\ pc = "loop" => (idx = Len(probed) + 1 /\ Len(outcomes) = Len(probed))
  /\ pc = "probing" => (idx = Len(probed) /\ Len(outcomes) = Len(probed) - 1)
  /\ pc = "done" => Len(outcomes) = Len(probed)
  /\ \A i \in 1..Len(outcomes) :
       /\ i < Len(outcomes) => outcomes[i] = "RISKY"
       /\ outcomes[i] \in {"VALID", "INVALID"} =>
            /\ pc = "done"
            /\ i = Len(probed)
            /\ smtpResult = probeResult
            /\ smtpResult.Status = outcomes[i]
       /\ (i = Len(outcomes) /\ outcomes[i] = "RISKY" /\ i < Len(servers))
            => pc # "done"

\* C1 witness: a two-server list whose first server gave a definitive
\* answer: CheckSMTP has returned and the second server was never probed.
C1_Witness ==
  /\ pc = "done"
  /\ Len(servers) = 2
  /\ servers[1] # servers[2]
  /\ probed = <<servers[1]>>
  /\ smtpResult.Status = "INVALID"

\* C2: when every server of a non-empty list was probed and each probe was
\* Risky, CheckSMTP returns Risky, reason "All SMTP servers returned
\* uncertain results", code 0.
C2_AllUncertainIsRisky ==
  (/\ pc = "done"
   /\ Len(servers) >= 1
   /\ Len(outcomes) = Len(servers)
   /\ \A i \in 1..Len(outcomes) : outcomes[i] = "RISKY")
  => smtpResult = [Status |-> "RISKY",
                   Reason |-> "All SMTP servers returned uncertain results",
                   Code |-> 0]

\* C2 witness: two servers probed, both Risky, CheckSMTP returned.
C2_Witness ==
  /\ pc = "done"
  /\ Len(servers) = 2
  /\ outcomes = <<"RISKY", "RISKY">>

\* C3 as claimed: for an empty server list CheckSMTP returns the same Risky
\* "uncertain results" verdict as when every server was Risky.
C3_Original ==
  (pc = "done" /\ servers = <<>>)
  => smtpResult = [Status |-> "RISKY",
                   Reason |-> "All SMTP servers returned uncertain results",
                   Code |-> 0]

\* C3 amended: for an empty server list CheckSMTP returns Invalid, reason
\* "No SMTP servers found for the domain", code 0, and probes nothing.
C3_EmptyListInvalid ==
  (pc = "done" /\ servers = <<>>)
  => /\ smtpResult = [Status |-> "INVALID",
                      Reason |-> "No SMTP servers found for the domain",
                      Code |-> 0]
     /\ probed = <<>>
     /\ sess = "Idle"

\* C3 witness: CheckSMTP has returned for the empty list.
C3_Witness == pc = "done" /\ servers = <<>> /\ smtpResult # NoResult

\* C5 as claimed: a probe returns Valid or Invalid only after RCPT TO was
\* sent, and a server whose greeting, HELO reply or MAIL FROM reply has a
\* non-2xx code always gets a Risky result.
C5_DefinitiveOnlyFromRcpt ==
  sess = "Closed" =>
    /\ probeResult.Status \in {"VALID", "INVALID"} =>
         (Len(sent) >= 3 /\ sent[3] = "RCPT TO")
    /\ (\E k \in 1..3 : k <= Len(srvReply) /\ srvReply[k] >= 300)
         => probeResult.Status = "RISKY"

\* C6 as claimed: commands go out in the order HELO, MAIL FROM, RCPT TO,
\* QUIT, and each of HELO, MAIL FROM, RCPT TO is sent only when the server's
\* reply to the stage before it (greeting, HELO, MAIL FROM) is 2xx.
C6_CommandsOnlyAfter2xx ==
  /\ \A k \in 1..Len(sent) :
       \/ sent[k] = <<"HELO", "MAIL FROM", "RCPT TO", "QUIT">>[k]
       \/ (k = 4 /\ sent[k] = "QUIT")
  /\ \A k \in 1..Len(sent) :
       k <= 3 => (k <= Len(srvReply) /\ Is2xx(srvReply[k]))

\* C7 as claimed: the timeout is one deadline counted from the connection
\* attempt, so a session that has run longer than the timeout ended Risky
\* with code 0.
C7_Original ==
  (sess = "Closed" /\ clock > Timeout)
  => (probeResult.Status = "RISKY" /\ probeResult.Code = 0)

\* C7 amended: the timeout bounds the connection attempt, and is then one
\* absolute deadline (connect time + timeout) for everything after the
\* connect, not a per-step allowance: a probe lasts at most twice the
\* timeout, and a session in which the dial or a read hit its limit ends
\* Risky with code 0.
C7_DeadlineAfterConnect ==
  /\ connectedAt <= Timeout
  /\ clock <= 2 * Timeout
  /\ Len(srvReply) >= 1 => clock <= connectedAt + Timeout
  /\ Len(srvReply) = 0 => clock <= Timeout
  /\ (sess = "Closed" /\ timedOut)
       => (probeResult.Status = "RISKY" /\ probeResult.Code = 0)

\* C7 witness: the dial took the whole timeout, the first three replies
\* came in time, and the read of the RCPT TO reply timed out at twice the
\* timeout.
C7_Witness ==
  /\ sess = "Closed"
  /\ timedOut
  /\ Len(reads) = 4
  /\ connectedAt = Timeout
  /\ clock = 2 * Timeout
  /\ probeResult.Status = "RISKY"

(***************************************************************************)
(* Properties of analyzeSMTPResponse, under SpecAnalyze.                   *)
(***************************************************************************)
\* C4: analyzeSMTPResponse(code) is Valid exactly for 200..299, Invalid
\* exactly for 550, 551 and 553, Risky for every other code, and carries
\* the code it was given.
C4_Classification ==
  anResult # NoResult =>
    /\ anResult.Code = anCode
    /\ anResult.Status = "VALID" <=> (anCode >= 200 /\ anCode <= 299)
    /\ anResult.Status = "INVALID" <=> anCode \in {550, 551, 553}
    /\ anResult.Status = "RISKY" <=>
         ~(anCode >= 200 /\ anCode <= 299) /\ anCode \notin {550, 551, 553}

\* C4 witness: code 552 has been classified, and is Risky.
C4_Witness == anCode = 552 /\ anResult.Status = "RISKY"

(***************************************************************************)
(* Properties of the reputation cache, under SpecCache.  The external      *)
(* provider call of a lookup is its call of AbuseIPDBClient.CheckIP.       *)
(***************************************************************************)
\* C8: a lookup that finds an entry for its IP younger than the TTL returns
\* that entry, calls CheckIP zero times and stores nothing.
C8_FreshEntryServed ==
  \A t \in Threads :
    (cpc[t] = "done" /\ seenAge[t] >= 0 /\ seenAge[t] < cacheExpiry)
    => /\ cret[t] = seenRec[t]
       /\ cret[t] # NoRecord
       /\ cret[t].CheckedAt + seenAge[t] <= now
       /\ calls[t] = 0
       /\ ~wrote[t]

\* C8 witness: a lookup has returned an entry of age 1, written by an
\* earlier lookup, without calling CheckIP.
C8_Witness ==
  \E t \in Threads :
    /\ cpc[t] = "done"
    /\ seenAge[t] = 1
    /\ calls[t] = 0
    /\ cret[t] = ipCache[cip[t]]
    /\ cret[t].Error = ""

\* C9 as claimed: a lookup that finds an entry whose age has reached the
\* TTL calls CheckIP exactly once, stores the record it got in the cache
\* and returns that record.
C9_ExpiredEntryRefetched ==
  \A t \in Threads :
    (cpc[t] = "done" /\ seenAge[t] >= cacheExpiry)
    => /\ calls[t] = 1
       /\ wrote[t]
       /\ cret[t] = cres[t]
       /\ cret[t] # NoRecord

\* C10 as claimed: a lookup whose CheckIP call failed, in whatever way, has
\* stored a record with the error under its IP when it returns.
C10_FailureCached ==
  \A t \in Threads :
    (cpc[t] = "done" /\ failKind[t] # "")
    => /\ wrote[t]
       /\ cret[t].Error # ""
       /\ cret[t] = cres[t]

\* C11: a ClearExpiredCache call deletes every entry older than the TTL and
\* leaves every other entry in the map as it was; an entry a lookup at that
\* instant would serve (younger than the TTL) is never deleted.
C11_SweepRemovesOnlyExpired ==
  [][\A t \in Threads :
       (cpc[t] = "sweep" /\ cpc'[t] = "swept") =>
         \A ip \in IPs :
           /\ (ipCache[ip] # NoRecord /\ now - ipCache[ip].CheckedAt > cacheExpiry)
                => ipCache'[ip] = NoRecord
           /\ ~(ipCache[ip] # NoRecord /\ now - ipCache[ip].CheckedAt > cacheExpiry)
                => ipCache'[ip] = ipCache[ip]
           /\ (ipCache[ip] # NoRecord /\ now - ipCache[ip].CheckedAt < cacheExpiry)
                => ipCache'[ip] = ipCache[ip]]_vars

\* a sweep has deleted an entry and another entry, not older than the TTL,
\* is still in the map
C11_Witness ==
  \E t \in Threads :
    /\ cpc[t] = "swept"
    /\ swept[t] # {}
    /\ \E ip \in IPs \ swept[t] :
         /\ ipCache[ip] # NoRecord
         /\ now - ipCache[ip].CheckedAt <= cacheExpiry

\* C12: a lookup never stores its record over a record for the same IP
\* that CheckIP returned at a later time than its own.
C12_NewestFetchKept ==
  [][\A t \in Threads :
       (cpc[t] = "write" /\ cpc'[t] = "done" /\ ipCache[cip[t]] # NoRecord) =>
         ipCache'[cip[t]].CheckedAt >= ipCache[cip[t]].CheckedAt]_vars

\* C13: a goroutine storing the entry of one IP never keeps a reader of
\* another IP from taking the read lock, and a reader of one IP never keeps
\* a writer of another IP from taking the write lock.
C13_OtherIPNeverBlocked ==
  \A t, u \in Threads :
    (t # u /\ cip[t] # cip[u]) =>
      /\ (cpc[t] = "write" /\ cpc[u] = "rlock") => CanRLock
      /\ (cpc[t] = "check" /\ cpc[u] = "lock") => CanLock

\* the canonical Status a status string of validator.go stands for
Verdict(st) ==
  IF st = "valid" THEN StatusValid
  ELSE IF st = "invalid" THEN StatusInvalid
  ELSE IF st = "suspicious" THEN StatusRisky
  ELSE st

\* C16: when the address fails IsValidSyntax, ValidateEmail returns Invalid
\* and has started no network operation.
C16_SyntaxFailureStopsEarly ==
  (vpc = "basic" /\ ~IsValidSyntax(email)) =>
    (Verdict(result.Status) = StatusInvalid /\ netOps = <<>>)

\* the domain has no MX records: the lookup says so
HasNoMX(z) == z.mx.kind = "notfound" \/ (z.mx.kind = "ok" /\ z.mx.recs = <<>>)

\* C17: a domain with address records and no MX records is accepted by
\* ValidateDomain and is not rejected for the missing MX records by
\* ValidateEmail; ValidateDomain fails only when both lookups find nothing.
C17_AddressOnlyDomainAccepted ==
  /\ (zone.a = "ok" /\ HasNoMX(zone)) =>
       /\ vdRet # NotCalled => vdRet = ""
       /\ vpc = "basic" => result.Reason # "no MX records found"
  /\ vdRet \notin {NotCalled, ""} => (zone.mx.kind # "ok" \/ zone.mx.recs = <<>>) /\ zone.a # "ok"

\* neither lookup of the domain yields a record
NoMXNoA(z) == (z.mx.kind # "ok" \/ z.mx.recs = <<>>) /\ z.a # "ok"

\* C18 as stated: with no MX and no A records ValidateDomain fails with
\* "domain does not exist" however the MX lookup reported it, and the
\* verdict is Invalid.
C18_Original ==
  NoMXNoA(zone) =>
    /\ vdRet # NotCalled => vdRet = "domain does not exist"
    /\ vpc = "basic" => Verdict(result.Status) = StatusInvalid

\* C18 amended: with no MX and no A records ValidateDomain fails with the
\* error of the MX lookup ("domain does not exist" only when that lookup
\* reported not-found), and the verdict of ValidateEmail is "invalid".
C18_NoRecordsFailsWithMXError ==
  NoMXNoA(zone) =>
    /\ vdRet # NotCalled =>
         vdRet = IF zone.mx.kind = "notfound" THEN "domain does not exist"
                 ELSE IF zone.mx.kind = "timeout" THEN "DNS lookup timeout"
                 ELSE IF zone.mx.kind = "error" THEN "failed to lookup MX records"
                 ELSE "no MX records found for the domain"
    /\ vpc = "basic" => result.Status = "invalid"

\* a domain with an empty MX list and no address: ValidateDomain has failed
\* with the empty-list error and ValidateEmail has said invalid
C18_Witness ==
  /\ zone.mx.kind = "ok" /\ zone.mx.recs = <<>> /\ zone.a = "notfound"
  /\ vdRet = "no MX records found for the domain"
  /\ vpc = "basic" /\ result.Status = "invalid"
  /\ MatchEmailRegex(email)

\* C19: on success CheckMX returns the looked-up records sorted ascending
\* by Pref, records of equal Pref in the order the lookup gave them.
C19_SortedStablePermutation ==
  mxRet.err = "" =>
    /\ \A i, j \in 1..Len(mxRet.recs) : i < j => mxRet.recs[i].Pref <= mxRet.recs[j].Pref
    /\ \E f \in Perms(Len(zone.mx.recs)) :
         /\ mxRet.recs = [i \in 1..Len(zone.mx.recs) |-> zone.mx.recs[f[i]]]
         /\ \A i, j \in 1..Len(zone.mx.recs) :
              (i < j /\ mxRet.recs[i].Pref = mxRet.recs[j].Pref) => f[i] < f[j]

\* C20: every Status returned by ValidateEmail and ValidateBatch is one of
\* VALID, INVALID, RISKY, UNKNOWN, ERROR.
C20_StatusCanonical ==
  /\ vpc = "basic" => result.Status \in {StatusValid, StatusInvalid, StatusRisky, "UNKNOWN", "ERROR"}
  /\ \A i \in 1..Len(results) :
       results[i].Status \in {StatusValid, StatusInvalid, StatusRisky, "UNKNOWN", "ERROR"}

\* some collected record is above a threshold
SomeRecordAbove ==
  \E i \in 1..Len(reputationResults) :
    \/ reputationResults[i].AbuseConfidenceScore > 75
    \/ reputationResults[i].TotalReports > 50

\* C14 as stated: a verification that was Valid ends Risky exactly when some
\* resolved IP is above a threshold, stays Valid otherwise, and has the
\* reputation records attached either way.
C14_Original ==
  (vpc = "returned" /\ Verdict(basicResult.Status) = StatusValid
     /\ "ip_reputation_error" \notin result.Metadata) =>
    /\ Verdict(result.Status) = StatusRisky <=> SomeRecordAbove
    /\ ~SomeRecordAbove => Verdict(result.Status) = StatusValid
    /\ {"ip_reputation", "mail_server_ips"} \subseteq result.Metadata

\* C14 amended: when at least one mail-server IP was resolved, a verification
\* that was "valid" ends "suspicious" exactly when some collected record has
\* a score above 75 or more than 50 reports, and stays "valid" otherwise;
\* either way one record per IP and the IP list are attached.  When no IP
\* was resolved it ends "suspicious" with nothing attached.
C14_DowngradeIffAboveThreshold ==
  (vpc = "returned" /\ basicResult.Status = "valid"
     /\ "ip_reputation_error" \notin result.Metadata) =>
    IF ips # <<>>
      THEN /\ result.Status = "suspicious" <=> SomeRecordAbove
           /\ ~SomeRecordAbove => result = [basicResult EXCEPT
                  !.Metadata = @ \cup {"ip_reputation", "mail_server_ips"}]
           /\ SomeRecordAbove => result.Reason = "mail server IP has poor reputation"
           /\ {"ip_reputation", "mail_server_ips"} \subseteq result.Metadata
           /\ Len(reputationResults) = Len(ips)
           /\ \A i \in 1..Len(ips) : reputationResults[i].IPAddress = ips[i]
      ELSE /\ result.Status = "suspicious"
           /\ result.Reason = "no mail servers found for domain"
           /\ result.Metadata = basicResult.Metadata
           /\ reputationResults = <<>>

\* two IPs were looked up, only one record is above a threshold (by its
\* report count alone) and the verdict was downgraded
C14_Witness ==
  /\ vpc = "returned" /\ basicResult.Status = "valid"
  /\ Len(ips) = 2 /\ Len(reputationResults) = 2
  /\ \E i, j \in 1..2 :
       /\ reputationResults[i].TotalReports = 51
       /\ reputationResults[i].AbuseConfidenceScore = 0
       /\ reputationResults[j].AbuseConfidenceScore = 75
       /\ reputationResults[j].TotalReports = 50
  /\ result.Status = "suspicious"
  /\ "ip_reputation" \in result.Metadata

\* C15 as stated: when the IP set cannot be resolved, no IP is resolved, or
\* provider lookups fail, the status stays what basic validation gave.
C15_Original ==
  (vpc = "returned" /\ Verdict(basicResult.Status) = StatusValid
     /\ \A i \in 1..Len(reputationResults) : reputationResults[i].Error # "") =>
    result.Status = basicResult.Status

\* C15 amended: a failed GetMailServerIPs and failed provider lookups leave
\* the status as it was and are recorded in the metadata only; but when
\* GetMailServerIPs succeeds with no IP the status becomes "suspicious".
C15_FailureKeepsStatusUnlessNoIP ==
  (vpc = "returned" /\ basicResult.Status = "valid") =>
    /\ "ip_reputation_error" \in result.Metadata =>
         result = [basicResult EXCEPT !.Metadata = @ \cup {"ip_reputation_error"}]
    /\ (ips # <<>> /\ \A i \in 1..Len(reputationResults) :
                        reputationResults[i].Error # "") =>
         /\ result.Status = "valid"
         /\ result.Reason = basicResult.Reason
         /\ "ip_reputation" \in result.Metadata
    /\ (ips # <<>> /\ result.Status # "valid") =>
         \E i \in 1..Len(reputationResults) :
           reputationResults[i].Error = "" /\ HighRisk(reputationResults[i])
    /\ (ips = <<>> /\ "ip_reputation_error" \notin result.Metadata) =>
         result.Status = "suspicious"

\* GetMailServerIPs has failed for an address that was valid: the status is
\* still valid and the failure is in the metadata
C15_Witness ==
  /\ vpc = "returned" /\ basicResult.Status = "valid"
  /\ "ip_reputation_error" \in result.Metadata
  /\ result.Status = "valid"

\* C21: the steps after the gate (IP resolution, reputation lookups, the
\* downgrade) are taken only for a basic result that is valid; for any other
\* basic result ValidateEmailWithReputation returns at the gate, with that
\* result as it was, no further network operation, no IP resolved, no
\* lookup started and the cache as it was.
C21_AugmentationOnlyWhenValid ==
  /\ [](vpc \in {"resolve", "loop", "lookup"} =>
         Verdict(basicResult.Status) = StatusValid)
  /\ []((vpc = "returned" /\ Verdict(basicResult.Status) # StatusValid) =>
         /\ result = basicResult
         /\ ips = <<>> /\ reputationResults = <<>>
         /\ cpc[Verifier] = "idle" /\ calls[Verifier] = 0)
  /\ [][(vpc = "basic" /\ vpc' # "basic" /\ Verdict(result.Status) # StatusValid) =>
         /\ vpc' = "returned"
         /\ result' = result
         /\ UNCHANGED <<netOps, ips, reputationResults, ipCache, cacheMutex,
                        cpc, calls>>]_vars

\* an address of a domain without records was verified after its domain was
\* looked up: the verdict of the basic validator has been returned as it was
C21_Witness ==
  /\ vpc = "returned"
  /\ basicResult.Status = "invalid"
  /\ netOps # <<>>
  /\ result = basicResult
  /\ ips = <<>>

\* C22 as claimed: the code each step of a probe session is decided on (the
\* k-th code readResponse returned) is the code of the final line of the
\* server's reply to that step (greeting, HELO, MAIL FROM, RCPT TO), multi-line
\* replies included, whenever the server replied and the read did not fail on
\* the deadline.
C22_ReplyOfSameStep ==
  \A k \in 1..Len(reads) :
    (srvReply[k] # NoReply /\ (k < Len(reads) \/ ~timedOut))
      => reads[k] = srvReply[k]

\* the goroutine is inside RLock() or Lock(), not yet holding the lock
WaitsForLock(t) == cpc[t] \in {"rlock", "statsLock", "lock", "sweepLock"}

\* the goroutine can take its next step even when sync.RWMutex lets no reader
\* in once some goroutine is at Lock()
CanProceed(t) ==
  \/ cpc[t] \in {"check", "stats", "fetch", "write", "sweep", "swept", "done"}
  \/ /\ cpc[t] \in {"rlock", "statsLock"}
     /\ CanRLock
     /\ \A u \in Threads : cpc[u] \notin {"lock", "sweepLock"}
  \/ cpc[t] \in {"lock", "sweepLock"} /\ CanLock

\* C23: under every interleaving of lookups, sweeps and statistics reads, a
\* goroutine reads v.ipCache only while it holds the read lock and writes it
\* only while it holds the write lock, which excludes every other holder; a
\* goroutine outside those steps holds no lock (so every lock taken is
\* released on every path, and none is held during the CheckIP call); and
\* whenever a goroutine waits for the lock some goroutine can go on.
C23_LockDisciplineSound ==
  /\ cacheMutex.readers \subseteq Threads
  /\ cacheMutex.writer \in Threads \cup {NoThread}
  /\ cacheMutex.writer # NoThread => cacheMutex.readers = {}
  /\ \A t \in Threads :
       /\ t \in cacheMutex.readers <=> cpc[t] \in {"check", "stats"}
       /\ cacheMutex.writer = t <=> cpc[t] \in {"write", "sweep"}
       /\ cpc[t] = "fetch" => (t \notin cacheMutex.readers /\ cacheMutex.writer # t)
  /\ (\E t \in Threads : WaitsForLock(t)) => (\E u \in Threads : CanProceed(u))

\* a sweep holds the write lock while a lookup that found an entry of the
\* TTL's age, and has its new record from CheckIP, waits to store it
C23_Witness ==
  \E t, u \in Threads :
    /\ cpc[t] = "sweep" /\ cacheMutex.writer = t
    /\ cpc[u] = "lock" /\ seenAge[u] >= cacheExpiry
    /\ cres[u] # NoRecord
====
